---- MODULE Spec2Model ----
(***************************************************************************)
(* A model of tt-smi's backend (src/tt_smi/tt_smi_backend.py):             *)
(*   - the reset workflow: mobo_reset_from_json, pci_indices_from_json     *)
(*     and pci_board_reset, with the external reset drivers and the        *)
(*     enumeration collaborator as nondeterministic environments;          *)
(*   - the telemetry decoding of TTSMIBackend.                             *)
(* Python lists are sequences, dicts are records with an explicit key set. *)
(***************************************************************************)
EXTENDS Integers, Sequences, FiniteSets, TLC

VARIABLES
    pc,                \* position of the reset invocation
    json_dict,         \* the reset request, mutated in place by the parser
    orig,              \* history: the request as it was given
    again,             \* the parser is being applied to its own output
    plan1,             \* history: the plan the first application produced
    pci_indices,       \* list_of_boards of pci_board_reset
    reinit,            \* reinit of pci_board_reset
    chips,             \* what PciChip(pci_interface=i) gave for each index tried
    reset_wh_pci_idx,  \* pci_board_reset's local
    reset_gs_devs,     \* pci_board_reset's local: chips, named by their index
    gs_i,              \* loop index of the tensix reset loop
    calls,             \* history: the external driver calls, in order
    printed,           \* history: the error messages printed, in order
    tpc,               \* position of the TTSMIBackend object
    devices,           \* TTSMIBackend.devices: the chip family of each device
    raw,               \* what get_telemetry() gave when last read, per device
    smbus_telem_info,  \* TTSMIBackend.smbus_telem_info
    firmware_infos,    \* TTSMIBackend.firmware_infos
    device_infos,      \* TTSMIBackend.device_infos
    device_telemetrys, \* TTSMIBackend.device_telemetrys
    chip_limits,       \* TTSMIBackend.chip_limits
    ret                \* what the last call of a method of the backend gave

resetVars == <<pc, json_dict, orig, again, plan1, pci_indices, reinit, chips,
               reset_wh_pci_idx, reset_gs_devs, gs_i, calls, printed>>

telemVars == <<tpc, devices, raw, smbus_telem_info, firmware_infos,
               device_infos, device_telemetrys, chip_limits, ret>>

vars == <<resetVars, telemVars>>

-----------------------------------------------------------------------------
(* Bounds of the model *)

\* PCI indices are 0 .. MaxPci-1
MaxPci == 2

Idx == 0 .. (MaxPci - 1)

\* pci_index lists of a request: every list of at most two indices,
\* duplicates and both orders included
PciLists ==
    {<<>>} \cup {<<a>> : a \in Idx} \cup {<<a, b>> : a \in Idx, b \in Idx}

\* gs_tensix_reset lists of a request
GsLists == {<<>>} \cup {<<a>> : a \in Idx}

-----------------------------------------------------------------------------
(* Sequence helpers *)

SetOf(s) == {s[i] : i \in 1 .. Len(s)}

Min(S) == CHOOSE x \in S : \A y \in S : x <= y

\* list(set(...)) of small non-negative ints: CPython iterates such a set in
\* ascending order (hash(i) = i, one slot per value).
RECURSIVE ListOfSet(_)
ListOfSet(S) ==
    IF S = {} THEN <<>> ELSE <<Min(S)>> \o ListOfSet(S \ {Min(S)})

\* Python's `p in s` on strings; strings are sequences of characters here
IsSubstr(p, s) ==
    \E i \in 0 .. (Len(s) - Len(p)) : SubSeq(s, i + 1, i + Len(p)) = p

-----------------------------------------------------------------------------
(* The reset request (the json of `tt-smi -r file.json`)                    *)

\* "MOBO NAME", the placeholder of a generated reset file
MOBO_NAME == <<"M", "O", "B", "O", " ", "N", "A", "M", "E">>

\* the mobo names of the model: the placeholder, a name that contains it,
\* and a resolved name
MoboNames ==
    { MOBO_NAME,
      <<"<">> \o MOBO_NAME \o <<" ", "2", ">">>,
      <<"m", "o", "b", "o", "-", "1">> }

\* nb_host_pci_idx of a mobo entry: missing, or a list of indices
NbLists == {ListOfSet(S) : S \in SUBSET Idx}

MoboDicts ==
    [mobo : MoboNames, keys : {{"nb_host_pci_idx"}}, nb_host_pci_idx : NbLists]
    \cup [mobo : MoboNames, keys : {{}}, nb_host_pci_idx : {<<>>}]

\* wh_mobo_reset lists of at most one entry, and of at most two
MoboLists1 == {<<>>} \cup {<<m>> : m \in MoboDicts}

MoboLists2 == MoboLists1 \cup {<<m, n>> : m \in MoboDicts, n \in MoboDicts}

JsonKeys == {"gs_tensix_reset", "wh_link_reset", "re_init_devices", "wh_mobo_reset"}

\* the values a key of the request may take; the value of a missing key is
\* never read and is normalised to `none`
Values(keys, key, values, none) == IF key \in keys THEN values ELSE {none}

-----------------------------------------------------------------------------
(* mobo_reset_from_json, pci_indices_from_json                              *)

\* a slip: the name compared with the placeholder instead of searched for it
HasNameExact(mobo_dict) == mobo_dict.mobo # MOBO_NAME

\* line 491: "MOBO NAME" not in mobo_dict["mobo"]
HasName(mobo_dict) == ~IsSubstr(MOBO_NAME, mobo_dict.mobo)

\* lines 488-492: the mobos that have a name
MoboDictList(j) == SelectSeq(j.wh_mobo_reset, HasName)

\* a slip: the operands of the set difference swapped
RemoveEntrySwapped(wh_link_pci_indices, entry) ==
    IF "nb_host_pci_idx" \in entry.keys /\ entry.nb_host_pci_idx # <<>>
    THEN ListOfSet(SetOf(entry.nb_host_pci_idx) \ SetOf(wh_link_pci_indices))
    ELSE wh_link_pci_indices

\* lines 500-504: one iteration of the loop over the retained entries
RemoveEntry(wh_link_pci_indices, entry) ==
    IF "nb_host_pci_idx" \in entry.keys /\ entry.nb_host_pci_idx # <<>>
    THEN ListOfSet(SetOf(wh_link_pci_indices) \ SetOf(entry.nb_host_pci_idx))
    ELSE wh_link_pci_indices

\* lines 498-505: the loop
RECURSIVE RemoveLoop(_, _)
RemoveLoop(wh_link_pci_indices, mobo_dict_list) ==
    IF mobo_dict_list = <<>> THEN wh_link_pci_indices
    ELSE RemoveLoop(RemoveEntry(wh_link_pci_indices, Head(mobo_dict_list)),
                    Tail(mobo_dict_list))

\* line 498 raises KeyError when the request has no wh_link_reset
LinkKeyError(j) == "wh_link_reset" \notin j.keys

\* the dict mobo_reset_from_json returns (the request, mutated in place)
MoboResetFromJson(j) ==
    IF "wh_mobo_reset" \notin j.keys THEN j
    ELSE IF MoboDictList(j) = <<>> THEN j
    ELSE IF LinkKeyError(j) THEN j
    ELSE [j EXCEPT !.wh_link_reset = RemoveLoop(@, MoboDictList(j))]

\* whether mobo_reset_from_json calls GalaxyReset().warm_reset_mobo
CallsGalaxy(j) == "wh_mobo_reset" \in j.keys /\ MoboDictList(j) # <<>>

\* pci_indices_from_json: <<pci_indices, reinit>>
PciIndicesFromJson(j) ==
    << (IF "gs_tensix_reset" \in j.keys THEN j.gs_tensix_reset ELSE <<>>)
         \o (IF "wh_link_reset" \in j.keys THEN j.wh_link_reset ELSE <<>>),
       IF "re_init_devices" \in j.keys THEN j.re_init_devices ELSE FALSE >>

-----------------------------------------------------------------------------
(* pci_board_reset                                                          *)

\* what PciChip(pci_interface=i) gives: a chip for which as_wh() holds, one
\* for which as_gs() holds, one for which neither holds, or an exception
ChipKinds == {"wh", "gs", "unknown", "inaccessible"}

\* a printed message; idx is <<i>> when the text names pci index i
Msg(m, idx) == [msg |-> m, idx |-> idx]

\* a call of an external collaborator, as recorded in `calls`
Call(drv, pci, mobos, ok, failed) ==
    [drv |-> drv, pci |-> pci, mobos |-> mobos, ok |-> ok, failed |-> failed]

CallsOfDrv(cs, drv) == SelectSeq(cs, LAMBDA c : c.drv = drv)

\* the locals of pci_board_reset before its first loop; chip is <<>> while
\* the name `chip` is unbound and <<i>> when it holds the chip of index i
ClassifyStart ==
    [chip |-> <<>>, wh |-> <<>>, gs |-> <<>>, printed |-> <<>>, n |-> 0,
     status |-> "run"]

\* lines 522-529: try: chip = PciChip(...) except: print; the chip bound after
ChipAfterTry(st, hw, pci_idx) ==
    IF hw[pci_idx] = "inaccessible" THEN st.chip ELSE <<pci_idx>>

PrintedAfterTry(st, hw, pci_idx) ==
    IF hw[pci_idx] = "inaccessible"
    THEN Append(st.printed, Msg("access_error", <<pci_idx>>))
    ELSE st.printed

\* a slip: a chip of an unknown family is reported and skipped
ClassifyOneSkipUnknown(st, hw, pci_idx) ==
    LET chip == ChipAfterTry(st, hw, pci_idx)
        st1 == [st EXCEPT !.chip = chip, !.n = @ + 1,
                          !.printed = PrintedAfterTry(st, hw, pci_idx)]
    IN  IF chip = <<>>
        THEN [st1 EXCEPT !.status = "raised"]
        ELSE IF hw[chip[1]] = "wh"
        THEN [st1 EXCEPT !.wh = Append(@, pci_idx)]
        ELSE IF hw[chip[1]] = "gs"
        THEN [st1 EXCEPT !.gs = Append(@, chip[1])]
        ELSE [st1 EXCEPT !.printed = Append(@, Msg("unknown_chip", <<>>))]

\* lines 521-540: one iteration of the loop over list_of_boards
ClassifyOne(st, hw, pci_idx) ==
    LET chip == ChipAfterTry(st, hw, pci_idx)
        st1 == [st EXCEPT !.chip = chip, !.n = @ + 1,
                          !.printed = PrintedAfterTry(st, hw, pci_idx)]
    IN  IF chip = <<>>
        THEN [st1 EXCEPT !.status = "raised"]       \* UnboundLocalError
        ELSE IF hw[chip[1]] = "wh"
        THEN [st1 EXCEPT !.wh = Append(@, pci_idx)]
        ELSE IF hw[chip[1]] = "gs"
        THEN [st1 EXCEPT !.gs = Append(@, chip[1])]
        ELSE [st1 EXCEPT !.printed = Append(@, Msg("unknown_chip", <<>>)),
                         !.status = "exit1"]        \* sys.exit(1)

\* lines 519-540: the loop
RECURSIVE ClassifyLoop(_, _, _)
ClassifyLoop(st, hw, boards) ==
    IF boards = <<>> \/ st.status # "run" THEN st
    ELSE ClassifyLoop(ClassifyOne(st, hw, Head(boards)), hw, Tail(boards))

\* the indices the loop constructed a chip for
Visited(boards, n) == {boards[k] : k \in 1 .. n}

-----------------------------------------------------------------------------
(* The reset invocation                                                     *)

\* no method of the backend has been called
NoRet == [method |-> "none", raised |-> FALSE, value |-> <<>>]

\* no TTSMIBackend object is built during a reset from a request file
NoBackend ==
    /\ tpc = "off"
    /\ devices = <<>>
    /\ raw = <<>>
    /\ smbus_telem_info = <<>>
    /\ firmware_infos = <<>>
    /\ device_infos = <<>>
    /\ device_telemetrys = <<>>
    /\ chip_limits = <<>>
    /\ ret = NoRet

ResetInit(moboLists) ==
    /\ NoBackend
    /\ pc = "parse"
    /\ \E keys \in SUBSET JsonKeys :
         \E gs \in Values(keys, "gs_tensix_reset", GsLists, <<>>),
            wh \in Values(keys, "wh_link_reset", PciLists, <<>>),
            re \in Values(keys, "re_init_devices", BOOLEAN, FALSE),
            mobos \in Values(keys, "wh_mobo_reset", moboLists, <<>>) :
              json_dict = [ keys |-> keys,
                            gs_tensix_reset |-> gs,
                            wh_link_reset |-> wh,
                            re_init_devices |-> re,
                            wh_mobo_reset |-> mobos ]
    /\ orig = json_dict
    /\ again = FALSE
    /\ plan1 = [json |-> json_dict, pci_indices |-> <<>>, reinit |-> FALSE]
    /\ pci_indices = <<>>
    /\ reinit = FALSE
    /\ chips = <<>>
    /\ reset_wh_pci_idx = <<>>
    /\ reset_gs_devs = <<>>
    /\ gs_i = 1
    /\ calls = <<>>
    /\ printed = <<>>

\* the caller's order: the request is parsed (mobo_reset_from_json), the
\* parsed request gives the indices (pci_indices_from_json), and these are
\* handed to pci_board_reset
CallerNext(p) == IF p = "parse" THEN "indices" ELSE "plan"

\* a slip: the grayskull block placed before the wormhole block
StepAfterGsFirst(p) ==
    IF p = "classify" THEN "gs"
    ELSE IF p = "gs" THEN "wh"
    ELSE IF p = "wh" THEN "reinit"
    ELSE "done"

\* the order of the blocks of pci_board_reset, lines 519-569
StepAfter(p) ==
    IF p = "classify" THEN "wh"
    ELSE IF p = "wh" THEN "gs"
    ELSE IF p = "gs" THEN "reinit"
    ELSE "done"

\* mobo_reset_from_json(json_dict), lines 485-513
DoMoboResetFromJson ==
    /\ pc = "parse"
    /\ \/ /\ ~CallsGalaxy(json_dict)
          /\ UNCHANGED <<json_dict, calls, printed>>
          /\ pc' = CallerNext(pc)
       \/ /\ CallsGalaxy(json_dict)                 \* warm_reset_mobo returns
          /\ calls' = Append(calls, Call("galaxy", <<>>, MoboDictList(json_dict), TRUE, {}))
          /\ json_dict' = MoboResetFromJson(json_dict)
          /\ printed' = IF LinkKeyError(json_dict)
                        THEN Append(printed, Msg("parse_error", <<>>))
                        ELSE printed
          /\ pc' = CallerNext(pc)
       \/ /\ CallsGalaxy(json_dict)                 \* warm_reset_mobo raises
          /\ calls' = Append(calls, Call("galaxy", <<>>, MoboDictList(json_dict), FALSE, {}))
          /\ pc' = "raised"
          /\ UNCHANGED <<json_dict, printed>>
    /\ UNCHANGED <<telemVars, orig, again, plan1, pci_indices, reinit, chips,
                   reset_wh_pci_idx, reset_gs_devs, gs_i>>

\* pci_indices, reinit = pci_indices_from_json(json_dict), lines 472-482
DoPciIndicesFromJson ==
    /\ pc = "indices"
    /\ pci_indices' = PciIndicesFromJson(json_dict)[1]
    /\ reinit' = PciIndicesFromJson(json_dict)[2]
    /\ pc' = CallerNext(pc)
    /\ UNCHANGED <<telemVars, json_dict, orig, again, plan1, chips, reset_wh_pci_idx,
                   reset_gs_devs, gs_i, calls, printed>>

\* the parser applied to its own output
ParseAgain ==
    /\ pc = "plan"
    /\ ~again
    /\ again' = TRUE
    /\ plan1' = [json |-> json_dict, pci_indices |-> pci_indices, reinit |-> reinit]
    /\ pc' = "parse"
    /\ UNCHANGED <<telemVars, json_dict, orig, pci_indices, reinit, chips,
                   reset_wh_pci_idx, reset_gs_devs, gs_i, calls, printed>>

\* pci_board_reset(pci_indices, reinit), lines 519-540: the first loop
Classify ==
    /\ pc = "plan"
    /\ \E hw \in [SetOf(pci_indices) -> ChipKinds] :
         LET st == ClassifyLoop(ClassifyStart, hw, pci_indices)
         IN  /\ chips' = [i \in Visited(pci_indices, st.n) |-> hw[i]]
             /\ reset_wh_pci_idx' = st.wh
             /\ reset_gs_devs' = st.gs
             /\ printed' = printed \o st.printed
             /\ pc' = IF st.status = "run" THEN StepAfter("classify") ELSE st.status
    /\ UNCHANGED <<telemVars, json_dict, orig, again, plan1, pci_indices, reinit, gs_i, calls>>

\* lines 542-544: WHChipReset().full_lds_reset(pci_interfaces=reset_wh_pci_idx)
WhReset ==
    /\ pc = "wh"
    /\ \/ /\ reset_wh_pci_idx = <<>>
          /\ pc' = StepAfter("wh")
          /\ UNCHANGED calls
       \/ /\ reset_wh_pci_idx # <<>>                \* returns reset_devices
          /\ \E failed \in SUBSET SetOf(reset_wh_pci_idx) :
               /\ Cardinality(failed) <= 1
               /\ calls' = Append(calls, Call("wh", reset_wh_pci_idx, <<>>, TRUE, failed))
          /\ pc' = StepAfter("wh")
       \/ /\ reset_wh_pci_idx # <<>>                \* raises
          /\ calls' = Append(calls, Call("wh", reset_wh_pci_idx, <<>>, FALSE, {}))
          /\ pc' = "raised"
    /\ UNCHANGED <<telemVars, json_dict, orig, again, plan1, pci_indices, reinit, chips,
                   reset_wh_pci_idx, reset_gs_devs, gs_i, printed>>

\* lines 547-550 and gs_tensix_reset, lines 451-466: one iteration
GsReset ==
    /\ pc = "gs"
    /\ \/ /\ gs_i > Len(reset_gs_devs)
          /\ pc' = StepAfter("gs")
          /\ UNCHANGED <<calls, gs_i>>
       \/ /\ gs_i <= Len(reset_gs_devs)             \* tensix_reset returns
          /\ calls' = Append(calls, Call("gs", <<reset_gs_devs[gs_i]>>, <<>>, TRUE, {}))
          /\ gs_i' = gs_i + 1
          /\ pc' = "gs"
       \/ /\ gs_i <= Len(reset_gs_devs)             \* tensix_reset raises
          /\ calls' = Append(calls, Call("gs", <<reset_gs_devs[gs_i]>>, <<>>, FALSE, {}))
          /\ pc' = "raised"
          /\ UNCHANGED gs_i
    /\ UNCHANGED <<telemVars, json_dict, orig, again, plan1, pci_indices, reinit, chips,
                   reset_wh_pci_idx, reset_gs_devs, printed>>

\* a slip: a failed re-discovery is tried again instead of exiting
ReInitRetry ==
    /\ pc = "reinit"
    /\ \/ /\ ~reinit
          /\ pc' = StepAfter("reinit")
          /\ UNCHANGED <<calls, printed>>
       \/ /\ reinit
          /\ calls' = Append(calls, Call("detect", <<>>, <<>>, TRUE, {}))
          /\ pc' = StepAfter("reinit")
          /\ UNCHANGED printed
       \/ /\ reinit
          /\ Len(CallsOfDrv(calls, "detect")) < 2
          /\ calls' = Append(calls, Call("detect", <<>>, <<>>, FALSE, {}))
          /\ printed' = Append(printed, Msg("reinit_error", <<>>))
          /\ pc' = "reinit"
    /\ UNCHANGED <<telemVars, json_dict, orig, again, plan1, pci_indices, reinit, chips,
                   reset_wh_pci_idx, reset_gs_devs, gs_i>>

\* lines 552-569: detect_chips_with_callback()
ReInit ==
    /\ pc = "reinit"
    /\ \/ /\ ~reinit
          /\ pc' = StepAfter("reinit")
          /\ UNCHANGED <<calls, printed>>
       \/ /\ reinit                                 \* returns the chips
          /\ calls' = Append(calls, Call("detect", <<>>, <<>>, TRUE, {}))
          /\ pc' = StepAfter("reinit")
          /\ UNCHANGED printed
       \/ /\ reinit                                 \* raises: sys.exit(1)
          /\ calls' = Append(calls, Call("detect", <<>>, <<>>, FALSE, {}))
          /\ printed' = Append(printed, Msg("reinit_error", <<>>))
          /\ pc' = "exit1"
    /\ UNCHANGED <<telemVars, json_dict, orig, again, plan1, pci_indices, reinit, chips,
                   reset_wh_pci_idx, reset_gs_devs, gs_i>>

\* one reset invocation from a request file
Init == ResetInit(MoboLists1)

Next ==
    \/ DoMoboResetFromJson
    \/ DoPciIndicesFromJson
    \/ Classify
    \/ WhReset
    \/ GsReset
    \/ ReInit

Spec == Init /\ [][Next]_vars

\* the request parser alone, applied once and then to its own output
ParserInit == ResetInit(MoboLists2)

ParserNext ==
    \/ DoMoboResetFromJson
    \/ DoPciIndicesFromJson
    \/ ParseAgain

ParserSpec == ParserInit /\ [][ParserNext]_vars

-----------------------------------------------------------------------------
(* Properties of the reset workflow                                         *)

Terminal == pc \in {"done", "exit1", "raised"}

\* a board-level group whose name is the anonymous placeholder
IsPlaceholder(m) ==
    \E i \in 1 .. Len(m.mobo) :
        /\ i + Len(MOBO_NAME) - 1 <= Len(m.mobo)
        /\ \A k \in 1 .. Len(MOBO_NAME) : m.mobo[i + k - 1] = MOBO_NAME[k]

\* the positions of the groups of a request that are not placeholders
RetainedAt(j) ==
    {i \in 1 .. Len(j.wh_mobo_reset) : ~IsPlaceholder(j.wh_mobo_reset[i])}

\* the device indices the retained groups of a request control
Controlled(j) ==
    UNION { IF "nb_host_pci_idx" \in j.wh_mobo_reset[i].keys
            THEN SetOf(j.wh_mobo_reset[i].nb_host_pci_idx) ELSE {}
            : i \in RetainedAt(j) }

\* the per-device targets of a request: what pci_indices_from_json collects
Targets(j) ==
    (IF "gs_tensix_reset" \in j.keys THEN SetOf(j.gs_tensix_reset) ELSE {})
    \cup (IF "wh_link_reset" \in j.keys THEN SetOf(j.wh_link_reset) ELSE {})

CallsOf(drv) == {i \in 1 .. Len(calls) : calls[i].drv = drv}

\* C1: once the request is parsed with at least one retained group, the
\* plan's per-device targets are the original targets minus the devices the
\* retained groups control.
C1_NoDoubleReset ==
    (pc = "plan" /\ ~again /\ RetainedAt(orig) # {})
        => SetOf(pci_indices) = Targets(orig) \ Controlled(orig)

\* what the parser does remove: the controlled devices leave the
\* wh_link_reset list, the gs_tensix_reset list is left as it was
C1_LinkTargetsPruned ==
    (pc = "plan" /\ ~again /\ RetainedAt(orig) # {} /\ "wh_link_reset" \in orig.keys)
        => /\ SetOf(json_dict.wh_link_reset)
                = SetOf(orig.wh_link_reset) \ Controlled(orig)
           /\ json_dict.gs_tensix_reset = orig.gs_tensix_reset

\* a driver call that reports a failure for a target
FailedCall(c) == c.drv \in {"wh", "gs"} /\ (~c.ok \/ c.failed # {})

\* every per-device reset step of the invocation has been executed
AllResetStepsRun ==
    /\ reset_wh_pci_idx # <<>> => CallsOf("wh") # {}
    /\ Cardinality(CallsOf("gs")) = Len(reset_gs_devs)

\* C2: when a reset driver reports a failure for one target, the failure is
\* surfaced and the reset steps of the other targets are still executed.
C2_PartialFailure ==
    (Terminal /\ \E i \in 1 .. Len(calls) : FailedCall(calls[i]))
        => /\ pc = "raised" \/ \E k \in 1 .. Len(printed) : printed[k].msg = "driver_error"
           /\ AllResetStepsRun

\* the order of the steps the spec states: family A, family B, groups,
\* re-enumeration
SpecRank(drv) ==
    CASE drv = "wh" -> 1 [] drv = "gs" -> 2 [] drv = "galaxy" -> 3 [] OTHER -> 4

\* the order of the steps in the code: groups (while the request is
\* parsed), family A, family B, re-enumeration
CodeRank(drv) ==
    CASE drv = "galaxy" -> 0 [] drv = "wh" -> 1 [] drv = "gs" -> 2 [] OTHER -> 3

\* C3: the driver calls of one invocation happen in the order wormhole link
\* reset, grayskull tensix resets, board-level group reset, re-enumeration.
C3_SpecOrder ==
    \A i \in 1 .. Len(calls) : \A k \in 1 .. Len(calls) :
        i < k => SpecRank(calls[i].drv) <= SpecRank(calls[k].drv)

\* C3 as amended: the board-level group reset comes first, while the request
\* is parsed; then one wormhole call, the grayskull calls one device after
\* the other, then re-enumeration if requested; a call that raised is the
\* last one.
C3_CodeOrder ==
    /\ \A i \in 1 .. Len(calls) : \A k \in 1 .. Len(calls) :
         i < k => /\ CodeRank(calls[i].drv) <= CodeRank(calls[k].drv)
                  /\ calls[i].drv = calls[k].drv => calls[i].drv = "gs"
                  /\ calls[i].ok
    /\ CallsOf("galaxy") # {} => RetainedAt(orig) # {}
    /\ (pc \in {"indices", "plan"} /\ RetainedAt(orig) # {}) => CallsOf("galaxy") # {}
    /\ CallsOf("detect") # {} => (reinit /\ pc \in {"done", "exit1"})
    /\ pc = "done" => (AllResetStepsRun /\ (reinit => CallsOf("detect") # {}))

C3_Witness ==
    /\ pc = "done"
    /\ \A d \in {"galaxy", "wh", "gs", "detect"} : CallsOf(d) # {}

\* C4: the parser applied to its own output gives the same plan: the same
\* per-device targets, the same board-level groups, the same flag.
C4_Idempotent ==
    (pc = "plan" /\ again)
        => /\ SetOf(pci_indices) = SetOf(plan1.pci_indices)
           /\ Targets(json_dict) = Targets(plan1.json)
           /\ json_dict.wh_mobo_reset = plan1.json.wh_mobo_reset
           /\ json_dict.keys = plan1.json.keys
           /\ reinit = plan1.reinit

C4_Witness ==
    /\ pc = "plan" /\ again
    /\ SetOf(plan1.json.wh_link_reset) # SetOf(orig.wh_link_reset)
    /\ plan1.json.wh_link_reset # <<>>

\* the retained groups of a request, in order
RECURSIVE RetainedSeq(_)
RetainedSeq(mobos) ==
    IF mobos = <<>> THEN <<>>
    ELSE IF IsPlaceholder(Head(mobos)) THEN RetainedSeq(Tail(mobos))
    ELSE <<Head(mobos)>> \o RetainedSeq(Tail(mobos))

\* C5: a placeholder group is never passed to the group reset driver and
\* removes no device from the per-device targets; the driver is called only
\* when a group is retained, once per parse, with exactly the retained groups.
C5_PlaceholdersDropped ==
    /\ \A i \in CallsOf("galaxy") :
         /\ calls[i].mobos # <<>>
         /\ calls[i].mobos = RetainedSeq(orig.wh_mobo_reset)
         /\ \A k \in 1 .. Len(calls[i].mobos) : ~IsPlaceholder(calls[i].mobos[k])
    /\ Targets(orig) \ Targets(json_dict) \subseteq Controlled(orig)
    /\ (pc \in {"indices", "plan"} /\ ~again)
         => Cardinality(CallsOf("galaxy"))
              = (IF "wh_mobo_reset" \in orig.keys /\ RetainedAt(orig) # {} THEN 1 ELSE 0)

\* a request with a placeholder group and a retained group: the placeholder
\* controls a device of the link reset list, which stays in the plan
C5_Witness ==
    /\ pc = "plan"
    /\ CallsOf("galaxy") # {}
    /\ \E i \in 1 .. Len(orig.wh_mobo_reset) :
         /\ IsPlaceholder(orig.wh_mobo_reset[i])
         /\ orig.wh_mobo_reset[i].mobo # MOBO_NAME
         /\ \E d \in SetOf(orig.wh_mobo_reset[i].nb_host_pci_idx) :
              d \in SetOf(orig.wh_link_reset) /\ d \in SetOf(pci_indices)

\* C6: re-discovery is attempted only when the flag is set and only after
\* the reset steps; it is attempted once, it is the last call of the
\* invocation, and when it fails the invocation exits with status 1.
C6_ReEnumeration ==
    \A i \in CallsOf("detect") :
        /\ "re_init_devices" \in orig.keys /\ orig.re_init_devices
        /\ i = Len(calls)
        /\ CallsOf("detect") = {i}
        /\ AllResetStepsRun
        /\ \A k \in 1 .. (i - 1) : calls[k].ok
        /\ IF calls[i].ok THEN pc = "done"
           ELSE pc = "exit1" /\ printed[Len(printed)].msg = "reinit_error"

C6_Witness ==
    /\ pc = "exit1"
    /\ CallsOf("detect") # {} /\ CallsOf("wh") # {} /\ CallsOf("gs") # {}
    /\ ~calls[Len(calls)].ok

\* the devices of the list whose chip has a recognized family
Recognized == {i \in DOMAIN chips : chips[i] \in {"wh", "gs"}}

Unrecognized == {i \in DOMAIN chips : chips[i] = "unknown"}

ResetByDriver(i) ==
    \E k \in 1 .. Len(calls) :
        calls[k].drv \in {"wh", "gs"} /\ i \in SetOf(calls[k].pci)

\* C7: when one device of the list has an unrecognized chip family, the
\* error is reported and the other devices, whose family is recognized, are
\* still reset.
C7_UnknownIsLocal ==
    (Terminal /\ Unrecognized # {})
        => /\ \E k \in 1 .. Len(printed) : printed[k].msg = "unknown_chip"
           /\ \A i \in Recognized : ResetByDriver(i)

\* C7 as amended: when the first loop of pci_board_reset meets a chip of an
\* unrecognized family it prints "Unkown chip!!" and exits with status 1:
\* no reset driver of pci_board_reset is called and no re-discovery is done.
C7_UnknownAborts ==
    Unrecognized # {}
        => /\ pc = "exit1"
           /\ printed # <<>> /\ printed[Len(printed)] = Msg("unknown_chip", <<>>)
           /\ CallsOf("wh") = {} /\ CallsOf("gs") = {} /\ CallsOf("detect") = {}
           /\ \A i \in DOMAIN chips : ~ResetByDriver(i)

C7_Witness ==
    /\ pc = "exit1"
    /\ Unrecognized # {}
    /\ Recognized # {}
    /\ Len(pci_indices) > Cardinality(DOMAIN chips)

-----------------------------------------------------------------------------
(* TTSMIBackend: strings and numbers                                        *)
(* A Python str is a sequence of characters; None is <<>> and a value x     *)
(* that may be None is <<x>>.  Register values stay below 2^31.             *)

None == <<>>

Some(x) == <<x>>

HexChars ==
    <<"0", "1", "2", "3", "4", "5", "6", "7", "8", "9", "a", "b", "c", "d", "e", "f">>

\* the digits of hex(n), without the prefix
RECURSIVE HexDigits(_)
HexDigits(n) ==
    IF n < 16 THEN <<HexChars[n + 1]>>
    ELSE HexDigits(n \div 16) \o <<HexChars[(n % 16) + 1]>>

\* hex(n), line 180
Hex(n) == <<"0", "x">> \o HexDigits(n)

HexVal(c) == CHOOSE d \in 0 .. 15 : HexChars[d + 1] = c

RECURSIVE ParseHex(_, _)
ParseHex(s, acc) ==
    IF s = <<>> THEN acc ELSE ParseHex(Tail(s), 16 * acc + HexVal(Head(s)))

\* int(s, 16): the prefix 0x is optional
Int16(s) ==
    IF Len(s) >= 2 /\ SubSeq(s, 1, 2) = <<"0", "x">>
    THEN ParseHex(SubSeq(s, 3, Len(s)), 0)
    ELSE ParseHex(s, 0)

\* str(n) of a non-negative int
RECURSIVE Dec(_)
Dec(n) ==
    IF n < 10 THEN <<HexChars[n + 1]>>
    ELSE Dec(n \div 10) \o <<HexChars[(n % 10) + 1]>>

\* the format width: s padded with spaces on the left to w characters
RECURSIVE PadLeft(_, _)
PadLeft(s, w) == IF Len(s) >= w THEN s ELSE PadLeft(<<" ">> \o s, w)

\* f"{n:W.0f}" of a non-negative int n
Fmt0(n, w) == PadLeft(Dec(n), w)

\* f"{n:W.1f}" of a non-negative int n
Fmt1Int(n, w) == PadLeft(Dec(n) \o <<".", "0">>, w)

\* f"{n:W.2f}" of a non-negative int n
Fmt2Int(n, w) == PadLeft(Dec(n) \o <<".", "0", "0">>, w)

\* f"{n/16:W.1f}": sixteenths are exact in binary, the tenth is the nearest
\* one and a tie (4/16, 12/16) goes to the even tenth
Fmt1Sixteenths(n, w) ==
    LET tenth == <<0, 1, 1, 2, 2, 3, 4, 4, 5, 6, 6, 7, 8, 8, 9, 9>>
    IN  PadLeft(Dec(n \div 16) \o <<".">> \o Dec(tenth[(n % 16) + 1]), w)

\* f"{n/1000:W.2f}": the nearest hundredth; n % 10 = 5 (where the result
\* depends on the binary rounding of n/1000) is not among the values used
Fmt2Thousandths(n, w) ==
    LET cents == (n + 5) \div 10
    IN  PadLeft(Dec(cents \div 100) \o <<".">> \o Dec((cents % 100) \div 10)
                    \o Dec(cents % 10), w)

-----------------------------------------------------------------------------
(* TTSMIBackend: reading and decoding the telemetry of one device           *)

\* the registers of constants.SMBUS_TELEMETRY_LIST the backend decodes
Regs ==
    { "SMBUS_TX_TDC", "SMBUS_TX_VCORE", "SMBUS_TX_TDP",
      "SMBUS_TX_ASIC_TEMPERATURE", "SMBUS_TX_AICLK", "SMBUS_TX_VDD_LIMITS",
      "SMBUS_TX_THM_LIMITS", "SMBUS_TX_DDR_STATUS", "SMBUS_TX_DDR_SPEED",
      "SMBUS_TX_BOARD_ID_LOW", "SMBUS_TX_BOARD_ID_HIGH",
      "SMBUS_TX_ARC0_FW_VERSION", "SMBUS_TX_WH_FW_DATE",
      "SMBUS_TX_ETH_FW_VERSION", "SMBUS_TX_M3_BL_FW_VERSION",
      "SMBUS_TX_M3_APP_FW_VERSION", "SMBUS_TX_TT_FLASH_VERSION" }

\* get_smbus_board_info, lines 170-181: telem is what get_telemetry() gave,
\* a value or None per register
GetSmbusBoardInfo(telem) ==
    [r \in Regs |->
        IF telem[r] # None /\ telem[r][1] # 0 THEN Some(Hex(telem[r][1])) ELSE None]

Low16(x) == x % 65536

High16(x) == x \div 65536

\* int(self.smbus_telem_info[board_num][reg], 16)
RegInt(info, reg) == Int16(info[reg][1])

\* get_chip_telemetry raises TypeError: int(None, 16), lines 318-328
ChipTelemetryRaises(info) ==
    \E r \in {"SMBUS_TX_TDC", "SMBUS_TX_TDP", "SMBUS_TX_ASIC_TEMPERATURE", "SMBUS_TX_AICLK"} :
        info[r] = None

\* lines 319-322
Voltage(info) ==
    IF info["SMBUS_TX_VCORE"] # None
    THEN Fmt2Thousandths(RegInt(info, "SMBUS_TX_VCORE"), 4)
    ELSE Fmt2Int(10000, 4)

\* get_chip_telemetry, lines 316-338, when it returns
GetChipTelemetry(info) ==
    [ voltage |-> Voltage(info),
      current |-> Fmt1Int(Low16(RegInt(info, "SMBUS_TX_TDC")), 5),
      power |-> Fmt1Int(Low16(RegInt(info, "SMBUS_TX_TDP")), 5),
      aiclk |-> Fmt0(Low16(RegInt(info, "SMBUS_TX_AICLK")), 4),
      asic_temperature |->
          Fmt1Sixteenths(Low16(RegInt(info, "SMBUS_TX_ASIC_TEMPERATURE")), 4) ]

\* the fields of constants.LIMITS that get_chip_limits decodes
LIMITS ==
    { "vdd_min", "vdd_max", "tdp_limit", "tdc_limit", "asic_fmax",
      "therm_trip_l1_limit", "thm_limit" }

\* the register a limit is read from, lines 345-401
LimitReg(field) ==
    CASE field \in {"vdd_min", "vdd_max"} -> "SMBUS_TX_VDD_LIMITS"
      [] field = "tdp_limit" -> "SMBUS_TX_TDP"
      [] field = "tdc_limit" -> "SMBUS_TX_TDC"
      [] field = "asic_fmax" -> "SMBUS_TX_AICLK"
      [] OTHER -> "SMBUS_TX_THM_LIMITS"

\* the halves taken the other way round
LimitValueSwapped(field, x) ==
    IF field \in {"vdd_min", "thm_limit"} THEN x \div 65536 ELSE x % 65536

\* `value` of a branch of get_chip_limits when the register is there
LimitValue(field, x) ==
    IF field \in {"vdd_min", "thm_limit"} THEN Low16(x) ELSE High16(x)

\* the format of a branch of get_chip_limits
LimitFormat(field, value) ==
    CASE field \in {"vdd_min", "vdd_max"} -> Fmt2Thousandths(value, 4)
      [] field \in {"tdp_limit", "tdc_limit"} -> Fmt0(value, 3)
      [] field = "asic_fmax" -> Fmt0(value, 4)
      [] OTHER -> Fmt0(value, 2)

\* get_chip_limits, lines 340-404
GetChipLimits(info) ==
    [ field \in LIMITS |->
        IF info[LimitReg(field)] # None
        THEN Some(LimitFormat(field, LimitValue(field, RegInt(info, LimitReg(field)))))
        ELSE None ]

\* the body of the channel loops of get_dram_training_status for channel i,
\* lines 263-272 and 275-284: what it returns, <<>> when it goes on
DramChannel(info, i, trained) ==
    IF info["SMBUS_TX_DDR_STATUS"] = None THEN Some(FALSE)
    ELSE IF (RegInt(info, "SMBUS_TX_DDR_STATUS") \div (16 ^ i)) % 16 # trained
    THEN Some(FALSE)
    ELSE Some(TRUE)

\* a scan of every channel: success only when all of them are trained
RECURSIVE DramLoopFullScan(_, _, _, _)
DramLoopFullScan(info, i, num_channels, trained) ==
    IF i >= num_channels THEN <<TRUE>>
    ELSE IF DramChannel(info, i, trained) = <<FALSE>> THEN <<FALSE>>
    ELSE DramLoopFullScan(info, i + 1, num_channels, trained)

RECURSIVE DramLoop(_, _, _, _)
DramLoop(info, i, num_channels, trained) ==
    IF i >= num_channels THEN None
    ELSE IF DramChannel(info, i, trained) # None THEN DramChannel(info, i, trained)
    ELSE DramLoop(info, i + 1, num_channels, trained)

\* get_dram_training_status, lines 258-284: <<TRUE>> or <<FALSE>>
GetDramTrainingStatus(family, info) ==
    IF family = "wh" THEN DramLoop(info, 0, 8, 2)
    ELSE IF family = "gs" THEN DramLoop(info, 0, 6, 1)
    ELSE None

\* get_dram_speed raises TypeError: int(None, 16), lines 203 and 206
DramSpeedRaises(family, info) ==
    IF family = "gs" THEN info["SMBUS_TX_DDR_SPEED"] = None
    ELSE info["SMBUS_TX_DDR_STATUS"] = None

\* get_dram_speed, lines 200-219, when it returns
GetDramSpeed(family, info) ==
    IF family = "gs" THEN Some(Dec(RegInt(info, "SMBUS_TX_DDR_SPEED")))
    ELSE LET dram_speed_raw == RegInt(info, "SMBUS_TX_DDR_STATUS") \div (2 ^ 24)
         IN  CASE dram_speed_raw = 0 -> Some(<<"1", "6", "G">>)
               [] dram_speed_raw = 1 -> Some(<<"1", "4", "G">>)
               [] dram_speed_raw = 2 -> Some(<<"1", "2", "G">>)
               [] dram_speed_raw = 3 -> Some(<<"1", "0", "G">>)
               [] dram_speed_raw = 4 -> Some(<<"8", "G">>)
               [] OTHER -> None

\* str.replace("0x", "")
RECURSIVE Remove0x(_)
Remove0x(s) ==
    IF Len(s) < 2 THEN s
    ELSE IF SubSeq(s, 1, 2) = <<"0", "x">> THEN Remove0x(SubSeq(s, 3, Len(s)))
    ELSE <<Head(s)>> \o Remove0x(Tail(s))

NotX(c) == c # "x"

\* get_board_id, lines 189-198
GetBoardId(info) ==
    IF info["SMBUS_TX_BOARD_ID_LOW"] = None \/ info["SMBUS_TX_BOARD_ID_HIGH"] = None
    THEN <<"N", "/", "A">>
    ELSE SelectSeq(info["SMBUS_TX_BOARD_ID_HIGH"][1], NotX)
            \o Remove0x(info["SMBUS_TX_BOARD_ID_LOW"][1])

\* get_device_info, lines 286-314: the fields decoded from the telemetry
GetDeviceInfo(family, info) ==
    [ board_id |-> GetBoardId(info),
      dram_status |-> GetDramTrainingStatus(family, info),
      dram_speed |-> GetDramSpeed(family, info) ]

\* the register of each field of get_firmware_versions, lines 410-444
FwReg(field) ==
    CASE field = "arc_fw" -> "SMBUS_TX_ARC0_FW_VERSION"
      [] field = "arc_fw_date" -> "SMBUS_TX_WH_FW_DATE"
      [] field = "eth_fw" -> "SMBUS_TX_ETH_FW_VERSION"
      [] field = "m3_bl_fw" -> "SMBUS_TX_M3_BL_FW_VERSION"
      [] field = "m3_app_fw" -> "SMBUS_TX_M3_APP_FW_VERSION"
      [] OTHER -> "SMBUS_TX_TT_FLASH_VERSION"

FW_LIST ==
    {"arc_fw", "arc_fw_date", "eth_fw", "m3_bl_fw", "m3_app_fw", "tt_flash_version"}

\* the external decoder a field is handed to, lines 415-448
FwDecoder(field) ==
    CASE field = "arc_fw_date" -> "hex_to_date"
      [] field = "eth_fw" -> "hex_to_semver_eth"
      [] OTHER -> "hex_to_semver_m3_fw"

\* get_firmware_versions, lines 406-449: "N/A", or the decoder's value of
\* the register (the decoders are external and are not interpreted)
GetFirmwareVersions(info) ==
    [ field \in FW_LIST |->
        IF info[FwReg(field)] = None THEN [by |-> "N/A", of |-> 0]
        ELSE [by |-> FwDecoder(field), of |-> RegInt(info, FwReg(field))] ]

-----------------------------------------------------------------------------
(* The telemetry a device reports                                           *)

\* a reading of every register, as healthy hardware gives it
Nominal ==
    [r \in Regs |->
        CASE r = "SMBUS_TX_TDC" -> 13107250             \* 0x00c80032
          [] r = "SMBUS_TX_VCORE" -> 850                \* 0x352
          [] r = "SMBUS_TX_TDP" -> 11141205             \* 0x00aa0055
          [] r = "SMBUS_TX_ASIC_TEMPERATURE" -> 320     \* 0x0140
          [] r = "SMBUS_TX_AICLK" -> 65536500           \* 0x03e801f4
          [] r = "SMBUS_TX_VDD_LIMITS" -> 62260000      \* 0x03b60320
          [] r = "SMBUS_TX_THM_LIMITS" -> 5439563       \* 0x0053004b
          [] r = "SMBUS_TX_DDR_STATUS" -> 572662306     \* 0x22222222
          [] r = "SMBUS_TX_DDR_SPEED" -> 3700
          [] r = "SMBUS_TX_BOARD_ID_LOW" -> 4660        \* 0x1234
          [] r = "SMBUS_TX_BOARD_ID_HIGH" -> 1048596    \* 0x100014
          [] OTHER -> 16908288 ]                        \* 0x01020000

\* other readings of a register
Other(r) ==
    CASE r = "SMBUS_TX_TDC" -> {0, 65536, 50}           \* 0x10000: low half 0
      [] r = "SMBUS_TX_VCORE" -> {0, 853, 996}
      [] r = "SMBUS_TX_TDP" -> {0, 65536, 85}
      [] r = "SMBUS_TX_ASIC_TEMPERATURE" -> {0, 724, 65536 + 1100}
      [] r = "SMBUS_TX_AICLK" -> {0, 65536, 1000}
      [] r = "SMBUS_TX_VDD_LIMITS" -> {0, 62194515, 800} \* 0x03b50353
      [] r = "SMBUS_TX_THM_LIMITS" -> {0, 6553605, 75}   \* 0x00640005
      [] r = "SMBUS_TX_DDR_STATUS" ->
            { 0,
              2,               \* channel 0 alone has the wormhole code
              1,               \* channel 0 alone has the grayskull code
              572662305,       \* 0x22222221
              286331154,       \* 0x11111112
              1118481,         \* 0x00111111
              16777218,        \* 0x01000002: speed code 1
              85004578 }       \* 0x05111122: an unknown speed code
      [] r = "SMBUS_TX_DDR_SPEED" -> {0, 3200}
      [] OTHER -> {0, 1}

\* the registers whose limits get_chip_limits unpacks
LimitRegs ==
    { "SMBUS_TX_VDD_LIMITS", "SMBUS_TX_THM_LIMITS", "SMBUS_TX_TDP",
      "SMBUS_TX_TDC", "SMBUS_TX_AICLK" }

\* what get_telemetry() may give: the nominal reading with any of the limit
\* registers absent, or with one register absent or reading another value
RawMaps ==
    { [r \in Regs |-> IF r \in absent THEN None ELSE Some(Nominal[r])] :
        absent \in SUBSET LimitRegs }
    \cup { [[r \in Regs |-> Some(Nominal[r])] EXCEPT ![q] = None] : q \in Regs }
    \cup UNION { { [[r \in Regs |-> Some(Nominal[r])] EXCEPT ![q] = Some(v)] :
                    v \in Other(q) } : q \in Regs }

-----------------------------------------------------------------------------
(* TTSMIBackend: construction and the poll tick                             *)

\* the lists of a backend before the loop of __init__, lines 65-70
NoLists ==
    [ smbus |-> <<>>, fw |-> <<>>, infos |-> <<>>, telem |-> <<>>,
      limits |-> <<>>, status |-> "run" ]

\* lines 79-84: one iteration of the loop of __init__ for a device of the
\* given family whose registers read `telem`; an exception ends the loop
InitOne(st, family, telem) ==
    LET info == GetSmbusBoardInfo(telem)
        st1 == [st EXCEPT !.smbus = Append(@, info),
                          !.fw = Append(@, GetFirmwareVersions(info))]
    IN  IF DramSpeedRaises(family, info)
        THEN [st1 EXCEPT !.status = "crashed"]
        ELSE IF ChipTelemetryRaises(info)
        THEN [st1 EXCEPT !.infos = Append(@, GetDeviceInfo(family, info)),
                         !.status = "crashed"]
        ELSE [st1 EXCEPT !.infos = Append(@, GetDeviceInfo(family, info)),
                         !.telem = Append(@, GetChipTelemetry(info)),
                         !.limits = Append(@, GetChipLimits(info))]

\* lines 72-84: the loop of __init__
RECURSIVE InitLoop(_, _, _, _)
InitLoop(st, devs, maps, i) ==
    IF i > Len(devs) \/ st.status # "run" THEN st
    ELSE InitLoop(InitOne(st, devs[i], maps[i]), devs, maps, i + 1)

\* lines 186-187: one iteration of the loop of update_telem
UpdateOne(st, telem, i) ==
    LET info == GetSmbusBoardInfo(telem)
        st1 == [st EXCEPT !.smbus[i] = info]
    IN  IF ChipTelemetryRaises(info)
        THEN [st1 EXCEPT !.status = "crashed"]
        ELSE [st1 EXCEPT !.telem[i] = GetChipTelemetry(info)]

\* lines 183-187: the loop of update_telem
RECURSIVE UpdateLoop(_, _, _, _)
UpdateLoop(st, devs, maps, i) ==
    IF i > Len(devs) \/ st.status # "run" THEN st
    ELSE UpdateLoop(UpdateOne(st, maps[i], i), devs, maps, i + 1)

\* no reset is going on while the backend is polled
NoReset ==
    /\ pc = "off"
    /\ json_dict = <<>>
    /\ orig = <<>>
    /\ again = FALSE
    /\ plan1 = <<>>
    /\ pci_indices = <<>>
    /\ reinit = FALSE
    /\ chips = <<>>
    /\ reset_wh_pci_idx = <<>>
    /\ reset_gs_devs = <<>>
    /\ gs_i = 1
    /\ calls = <<>>
    /\ printed = <<>>

\* the device lists a backend is built for
DeviceLists == {<<"wh">>, <<"gs">>}

\* a backend under construction for the given devices
NewBackend ==
    /\ devices \in DeviceLists
    /\ raw = <<>>
    /\ smbus_telem_info = <<>>
    /\ firmware_infos = <<>>
    /\ device_infos = <<>>
    /\ device_telemetrys = <<>>
    /\ chip_limits = <<>>
    /\ ret = NoRet

TelemInit ==
    /\ NoReset
    /\ tpc = "new"
    /\ NewBackend

\* the registers read: one reading per device up to the one that raised
ReadUpTo(maps, st) == SubSeq(maps, 1, Len(st.smbus))

\* TTSMIBackend(devices), lines 49-84
BackendInit ==
    /\ tpc = "new"
    /\ \E maps \in [1 .. Len(devices) -> RawMaps] :
         LET st == InitLoop(NoLists, devices, maps, 1)
         IN  /\ raw' = ReadUpTo(maps, st)
             /\ smbus_telem_info' = st.smbus
             /\ firmware_infos' = st.fw
             /\ device_infos' = st.infos
             /\ device_telemetrys' = st.telem
             /\ chip_limits' = st.limits
             /\ tpc' = IF st.status = "run" THEN "ready" ELSE st.status
    /\ UNCHANGED <<resetVars, devices, ret>>

\* the registers that change between two polls
PollRegs ==
    { "SMBUS_TX_VCORE", "SMBUS_TX_TDC", "SMBUS_TX_VDD_LIMITS",
      "SMBUS_TX_DDR_STATUS", "SMBUS_TX_ARC0_FW_VERSION", "SMBUS_TX_BOARD_ID_LOW" }

\* what get_telemetry() may give at a poll
PollMaps ==
    { m \in RawMaps : \A r \in Regs \ PollRegs : m[r] = Some(Nominal[r]) }

\* update_telem(), lines 183-187
UpdateTelem ==
    /\ tpc = "ready"
    /\ \E maps \in [1 .. Len(devices) -> PollMaps] :
         LET st0 == [ smbus |-> smbus_telem_info, fw |-> firmware_infos,
                      infos |-> device_infos, telem |-> device_telemetrys,
                      limits |-> chip_limits, status |-> "run" ]
             st == UpdateLoop(st0, devices, maps, 1)
         IN  /\ raw' = maps
             /\ smbus_telem_info' = st.smbus
             /\ device_telemetrys' = st.telem
             /\ tpc' = IF st.status = "run" THEN "ready" ELSE st.status
    /\ UNCHANGED <<resetVars, devices, firmware_infos, device_infos, chip_limits, ret>>

TelemNext ==
    \/ BackendInit
    \/ UpdateTelem

TelemSpec == TelemInit /\ [][TelemNext]_vars

-----------------------------------------------------------------------------
(* The decoding methods of the backend, called on the registers of a device *)

\* a backend whose device 0 has just been read: raw holds the reading
DecodeInit ==
    /\ NoReset
    /\ tpc = "read"
    /\ devices \in DeviceLists
    /\ raw \in {<<m>> : m \in RawMaps}
    /\ smbus_telem_info = <<>>
    /\ firmware_infos = <<>>
    /\ device_infos = <<>>
    /\ device_telemetrys = <<>>
    /\ chip_limits = <<>>
    /\ ret = NoRet


\* what a call gave: its return value, or the exception it raised
Returned(method, value) == [method |-> method, raised |-> FALSE, value |-> <<value>>]

Raised(method) == [method |-> method, raised |-> TRUE, value |-> <<>>]

\* line 79 and line 186: self.smbus_telem_info[i] = self.get_smbus_board_info(i)
DoGetSmbusBoardInfo ==
    /\ tpc = "read"
    /\ smbus_telem_info' = <<GetSmbusBoardInfo(raw[1])>>
    /\ tpc' = "decode"
    /\ UNCHANGED <<resetVars, devices, raw, firmware_infos, device_infos,
                   device_telemetrys, chip_limits, ret>>

\* get_chip_telemetry(0), lines 316-338
DoGetChipTelemetry ==
    /\ tpc = "decode"
    /\ ret' = IF ChipTelemetryRaises(smbus_telem_info[1])
              THEN Raised("get_chip_telemetry")
              ELSE Returned("get_chip_telemetry", GetChipTelemetry(smbus_telem_info[1]))
    /\ UNCHANGED <<resetVars, tpc, devices, raw, smbus_telem_info, firmware_infos,
                   device_infos, device_telemetrys, chip_limits>>

\* get_chip_limits(0), lines 340-404
DoGetChipLimits ==
    /\ tpc = "decode"
    /\ ret' = Returned("get_chip_limits", GetChipLimits(smbus_telem_info[1]))
    /\ UNCHANGED <<resetVars, tpc, devices, raw, smbus_telem_info, firmware_infos,
                   device_infos, device_telemetrys, chip_limits>>

\* get_dram_training_status(0), lines 258-284
DoGetDramTrainingStatus ==
    /\ tpc = "decode"
    /\ ret' = Returned("get_dram_training_status",
                        GetDramTrainingStatus(devices[1], smbus_telem_info[1]))
    /\ UNCHANGED <<resetVars, tpc, devices, raw, smbus_telem_info, firmware_infos,
                   device_infos, device_telemetrys, chip_limits>>

DecodeNext ==
    \/ DoGetSmbusBoardInfo
    \/ DoGetChipTelemetry
    \/ DoGetChipLimits
    \/ DoGetDramTrainingStatus

DecodeSpec == DecodeInit /\ [][DecodeNext]_vars

-----------------------------------------------------------------------------
(* Properties of the decoding methods                                       *)

\* the registers get_chip_telemetry decodes
TelemRegs ==
    { "SMBUS_TX_TDC", "SMBUS_TX_VCORE", "SMBUS_TX_TDP",
      "SMBUS_TX_ASIC_TEMPERATURE", "SMBUS_TX_AICLK" }

\* the field of the result decoded from a register
TelemField(r) ==
    CASE r = "SMBUS_TX_TDC" -> "current"
      [] r = "SMBUS_TX_VCORE" -> "voltage"
      [] r = "SMBUS_TX_TDP" -> "power"
      [] r = "SMBUS_TX_ASIC_TEMPERATURE" -> "asic_temperature"
      [] OTHER -> "aiclk"

TelemFields == {"current", "voltage", "power", "asic_temperature", "aiclk"}

\* the call of `method` on the registers read has given ret
Called(method) == tpc = "decode" /\ ret.method = method

\* the reading with register r present
WithPresent(telem, r) == [telem EXCEPT ![r] = Some(Nominal[r])]

\* C8: whenever one of TDC, VCORE, TDP, ASIC_TEMPERATURE, AICLK is absent from
\* the reading, get_chip_telemetry returns a result, the field decoded from
\* that register is the unavailable marker (None), and every other field is
\* what it is when the register is present
C8_AbsentIsUnavailable ==
    Called("get_chip_telemetry") =>
        \A r \in TelemRegs :
            raw[1][r] = None =>
                /\ ~ret.raised
                /\ ret.value[1][TelemField(r)] = None
                /\ \A f \in TelemFields \ {TelemField(r)} :
                      /\ ~ChipTelemetryRaises(GetSmbusBoardInfo(WithPresent(raw[1], r)))
                      /\ ret.value[1][f] =
                           GetChipTelemetry(GetSmbusBoardInfo(WithPresent(raw[1], r)))[f]

NotSpace(c) == c # " "

NotPoint(c) == c # "."

\* the number a decimal text denotes; leading spaces do not count
ParseDec(s) ==
    LET digits == SelectSeq(s, NotSpace)
        F[k \in 0 .. Len(digits)] ==
            IF k = 0 THEN 0 ELSE 10 * F[k - 1] + HexVal(digits[k])
    IN  F[Len(digits)]

\* the text is a number with two decimals
TwoDecimals(s) == Len(s) >= 4 /\ s[Len(s) - 2] = "." /\ \A k \in {Len(s) - 1, Len(s)} : s[k] # "."

\* the hundredths a text with two decimals denotes
Hundredths(s) == ParseDec(SelectSeq(s, NotPoint))

\* the half of its register a limit is specified to read
SpecHalf(field, x) ==
    IF field \in {"vdd_min", "thm_limit"} THEN x % (2 ^ 16) ELSE x \div (2 ^ 16)

\* the register is absent from what get_chip_limits reads
Absent(r) == smbus_telem_info[1][r] = None

\* the value of the register get_chip_limits reads
RegValue(r) == raw[1][r][1]

\* C9 as stated: each limit is None exactly when its register is absent, and
\* is otherwise the value of the specified half of the register (the text
\* returned denotes that number, millivolts for vdd_min and vdd_max)
C9_LimitIsHalf ==
    Called("get_chip_limits") =>
        \A field \in LIMITS :
            LET limit == ret.value[1][field]
                r == LimitReg(field)
            IN  /\ limit = None <=> Absent(r)
                /\ ~Absent(r) =>
                      IF field \in {"vdd_min", "vdd_max"}
                      THEN /\ TwoDecimals(limit[1])
                           /\ 10 * Hundredths(limit[1]) = SpecHalf(field, RegValue(r))
                      ELSE ParseDec(limit[1]) = SpecHalf(field, RegValue(r))

\* C9, amended: each limit is None exactly when its register is absent,
\* whatever the other registers are; otherwise thm_limit,
\* therm_trip_l1_limit, tdp_limit, tdc_limit and asic_fmax are the decimal
\* text of the specified half of the register, and vdd_min and vdd_max are
\* that half in volts (a thousandth of it) rounded to two decimals
C9_LimitIsRenderedHalf ==
    Called("get_chip_limits") =>
        \A field \in LIMITS :
            LET limit == ret.value[1][field]
                r == LimitReg(field)
            IN  /\ limit = None <=> Absent(r)
                /\ ~Absent(r) =>
                      IF field \in {"vdd_min", "vdd_max"}
                      THEN /\ TwoDecimals(limit[1])
                           /\ 10 * Hundredths(limit[1]) - SpecHalf(field, RegValue(r)) \in -5 .. 5
                      ELSE ParseDec(limit[1]) = SpecHalf(field, RegValue(r))

\* two registers are absent, the limits of the present ones are decoded
C9_Witness ==
    /\ Called("get_chip_limits")
    /\ Absent("SMBUS_TX_THM_LIMITS")
    /\ Absent("SMBUS_TX_TDC")
    /\ ret.value[1]["thm_limit"] = None
    /\ ret.value[1]["tdc_limit"] = None
    /\ ret.value[1]["vdd_min"] = <<<<"0", ".", "8", "0">>>>
    /\ ret.value[1]["vdd_max"] = <<<<"0", ".", "9", "5">>>>
    /\ ret.value[1]["tdp_limit"] = <<<<"1", "7", "0">>>>

\* the code that says a channel of the family is trained
TrainedCode(family) == IF family = "wh" THEN 2 ELSE 1

\* C10: get_dram_training_status returns success exactly when DDR_STATUS is
\* present and its channel-0 nibble is the trained code of the family (2 for
\* wormhole, 1 for grayskull), whatever the nibbles of the other channels;
\* an absent register gives failure
C10_ChannelZeroDecides ==
    Called("get_dram_training_status") =>
        LET telem == raw[1]["SMBUS_TX_DDR_STATUS"]
        IN  ret.value[1] =
              << /\ telem # None
                 /\ telem[1] % 16 = TrainedCode(devices[1]) >>

\* wormhole, channel 0 trained and no other channel: success
C10_Witness ==
    /\ Called("get_dram_training_status")
    /\ devices[1] = "wh"
    /\ raw[1]["SMBUS_TX_DDR_STATUS"] = <<2>>
    /\ ret.value[1] = <<TRUE>>

-----------------------------------------------------------------------------
(* Properties of the backend across poll ticks                              *)

\* what the backend holds for device i decodes the reading `telem`
DecodesReading(i, telem) ==
    LET info == GetSmbusBoardInfo(telem)
    IN  /\ smbus_telem_info[i] = info
        /\ ~ChipTelemetryRaises(info)
        /\ device_telemetrys[i] = GetChipTelemetry(info)
        /\ chip_limits[i] = GetChipLimits(info)
        /\ firmware_infos[i] = GetFirmwareVersions(info)
        /\ ~DramSpeedRaises(devices[i], info)
        /\ device_infos[i] = GetDeviceInfo(devices[i], info)

\* C11: after the construction and any number of poll ticks, every part of
\* the snapshot of every device (telemetry, limits, firmware versions,
\* identity) is the decoding of the registers most recently read for it
C11_SnapshotFresh ==
    tpc = "ready" => \A i \in 1 .. Len(devices) : DecodesReading(i, raw[i])

\* C12: get_smbus_board_info stores None for a register only when the reader
\* reports it absent; a register read as 0 is stored as the hex text of 0
C12_ZeroIsKnown ==
    tpc = "decode" =>
        \A r \in Regs :
            /\ smbus_telem_info[1][r] = None <=> raw[1][r] = None
            /\ raw[1][r] = <<0>> => smbus_telem_info[1][r] = <<Hex(0)>>

-----------------------------------------------------------------------------
(* Properties of the classification of pci_board_reset                      *)

\* the devices of the list whose chip could not be opened
Inaccessible == {i \in DOMAIN chips : chips[i] = "inaccessible"}

\* the first loop of pci_board_reset has run to its end
Classified == pc \in {"wh", "gs", "reinit", "done"}

\* C13: an index whose chip cannot be opened is in neither reset set and is
\* never passed to a reset driver, and every accessible index is classified
\* by the family of its own chip
C13_InaccessibleNeverReset ==
    /\ \A i \in Inaccessible :
          /\ i \notin SetOf(reset_wh_pci_idx)
          /\ i \notin SetOf(reset_gs_devs)
          /\ ~ResetByDriver(i)
    /\ \A i \in SetOf(reset_wh_pci_idx) : chips[i] = "wh"
    /\ \A i \in SetOf(reset_gs_devs) : chips[i] = "gs"
    /\ Classified =>
          \A i \in DOMAIN chips :
              /\ chips[i] = "wh" => i \in SetOf(reset_wh_pci_idx)
              /\ chips[i] = "gs" => i \in SetOf(reset_gs_devs)

====
